---- MODULE Spec2Model ----
(***************************************************************************)
(* Binary codec between chrono values (NaiveTime, NaiveDate,               *)
(* NaiveDateTime, DateTime<Tz>) and the Postgres wire format               *)
(* (sqlx-core/src/postgres/types/chrono.rs).                               *)
(*                                                                         *)
(* Number representation.  TLC integers are 32 bits wide, the wire         *)
(* integers of the timestamp types are 64 bits wide.  A 64-bit count of    *)
(* microseconds (and a chrono Duration) is therefore kept as a normalised  *)
(* mixed-radix numeral [d, s, u]: d whole days (floored, may be negative), *)
(* s seconds of the day in 0..86399, u the sub-second part.  The value is  *)
(* d * 86_400_000_000 + s * 1_000_000 + u; every i64 has exactly one such  *)
(* numeral and the numerals of i64 are those between I64Min and I64Max.    *)
(* The wire bytes are computed from the numeral by byte-wise arithmetic    *)
(* modulo 2^64, so the full width is kept.                                 *)
(***************************************************************************)
EXTENDS Integers, Sequences, FiniteSets, TLC

\* ------------------------------------------------------------------ bounds

\* Radius of the neighbourhood enumerated around every interesting input.
Spread == 1

\* ------------------------------------------------------- library constants

SecsPerDay == 24 * 60 * 60
MicrosPerSec == 1000 * 1000
NanosPerSec == 1000 * 1000 * 1000
NanosPerMicro == 1000

\* chrono's NaiveDate covers the years MIN_YEAR ..= MAX_YEAR.
MinYear == -262144
MaxYear == 262143

\* The Postgres epoch, 2000-01-01 (postgres_epoch / NaiveDate::from_ymd).
EpochYear == 2000
EpochMonth == 1
EpochDay == 1

None == [tag |-> "None"]
Some(x) == [tag |-> "Some", v |-> x]

\* ---------------------------------------------------------------- calendar

Date(y, m, d) == [y |-> y, m |-> m, d |-> d]

IsLeapYear(y) == (y % 4 = 0 /\ y % 100 # 0) \/ y % 400 = 0

DaysInMonth(y, m) ==
    IF m = 2 THEN (IF IsLeapYear(y) THEN 29 ELSE 28)
    ELSE IF m \in {4, 6, 9, 11} THEN 30 ELSE 31

\* Proleptic Gregorian day number of y-m-d (day 0 is 0000-03-01).
DayNumber(y, m, d) ==
    LET yy  == IF m <= 2 THEN y - 1 ELSE y
        era == yy \div 400
        yoe == yy - era * 400
        mp  == IF m > 2 THEN m - 3 ELSE m + 9
        doy == (153 * mp + 2) \div 5 + d - 1
        doe == yoe * 365 + yoe \div 4 - yoe \div 100 + doy
    IN  era * 146097 + doe

EpochDayNumber == DayNumber(EpochYear, EpochMonth, EpochDay)

\* The date with the given proleptic Gregorian day number.
DateOfDayNumber(z) ==
    LET era == z \div 146097
        doe == z - era * 146097
        yoe == (doe - doe \div 1460 + doe \div 36524 - doe \div 146096) \div 365
        doy == doe - (365 * yoe + yoe \div 4 - yoe \div 100)
        mp  == (5 * doy + 2) \div 153
        d   == doy - (153 * mp + 2) \div 5 + 1
        m   == IF mp < 10 THEN mp + 3 ELSE mp - 9
        y   == yoe + era * 400 + (IF m <= 2 THEN 1 ELSE 0)
    IN  Date(y, m, d)

\* NaiveDate::MIN / NaiveDate::MAX as day offsets from the Postgres epoch.
MinDateDays == DayNumber(MinYear, 1, 1) - EpochDayNumber
MaxDateDays == DayNumber(MaxYear, 12, 31) - EpochDayNumber

\* Mutant of DateDaysSinceEpoch: days counted from the Unix epoch.
DateDaysSinceEpoch_Unix(date) ==
    DayNumber(date.y, date.m, date.d) - DayNumber(1970, 1, 1)

\* NaiveDate::signed_duration_since(epoch).num_days()
DateDaysSinceEpoch(date) == DayNumber(date.y, date.m, date.d) - EpochDayNumber

\* NaiveDate::checked_add_signed(Duration::days(n)) applied to the epoch:
\* None when the result leaves MIN_YEAR ..= MAX_YEAR.
EpochCheckedAddDays(n) ==
    IF n < MinDateDays \/ n > MaxDateDays THEN None
    ELSE Some(DateOfDayNumber(EpochDayNumber + n))

\* ------------------------------------------------- 64-bit numerals [d, s, u]

Num(d, s, u) == [d |-> d, s |-> s, u |-> u]

\* i64::MIN and i64::MAX, as counts of microseconds.
I64Min == Num(-106751992, 71945, 224192)
I64Max == Num(106751991, 14454, 775807)

NumLeq(a, b) ==
    \/ a.d < b.d
    \/ a.d = b.d /\ a.s < b.s
    \/ a.d = b.d /\ a.s = b.s /\ a.u <= b.u

InI64(m) == NumLeq(I64Min, m) /\ NumLeq(m, I64Max)

\* The numeral one unit above m, for a sub-second radix of r units.
NumSucc(m, r) ==
    IF m.u + 1 < r THEN Num(m.d, m.s, m.u + 1)
    ELSE IF m.s + 1 < SecsPerDay THEN Num(m.d, m.s + 1, 0)
    ELSE Num(m.d + 1, 0, 0)

\* The numeral of -m, for a sub-second radix of r units.
NumNeg(m, r) ==
    IF m.u = 0 /\ m.s = 0 THEN Num(-m.d, 0, 0)
    ELSE IF m.u = 0 THEN Num(-m.d - 1, SecsPerDay - m.s, 0)
    ELSE Num(-m.d - 1, SecsPerDay - 1 - m.s, r - m.u)

\* ------------------------------------------------------ byte-wise arithmetic

Reverse(b) == [i \in 1..Len(b) |-> b[Len(b) + 1 - i]]

\* The len low bytes of n in two's complement, least significant first.
RECURSIVE ToLE(_, _)
ToLE(n, len) ==
    IF len = 0 THEN <<>> ELSE <<n % 256>> \o ToLE(n \div 256, len - 1)

\* a * k + carry modulo 256^Len(a), a least significant first.
RECURSIVE MulSmallLE(_, _, _)
MulSmallLE(a, k, carry) ==
    IF a = <<>> THEN <<>>
    ELSE LET t == Head(a) * k + carry
         IN  <<t % 256>> \o MulSmallLE(Tail(a), k, t \div 256)

\* a + b + carry modulo 256^Len(a), both least significant first.
RECURSIVE AddLE(_, _, _)
AddLE(a, b, carry) ==
    IF a = <<>> THEN <<>>
    ELSE LET t == Head(a) + Head(b) + carry
         IN  <<t % 256>> \o AddLE(Tail(a), Tail(b), t \div 256)

\* -a modulo 256^Len(a).
NegLE(a) == AddLE([i \in 1..Len(a) |-> 255 - a[i]], ToLE(1, Len(a)), 0)

\* Long division of a (most significant first) by k, rem carried in.
RECURSIVE DivSmallBE(_, _, _)
DivSmallBE(a, k, rem) ==
    IF a = <<>> THEN [q |-> <<>>, r |-> rem]
    ELSE LET t    == rem * 256 + Head(a)
             rest == DivSmallBE(Tail(a), k, t % k)
         IN  [q |-> <<t \div k>> \o rest.q, r |-> rest.r]

RECURSIVE NatOfBE(_, _)
NatOfBE(a, acc) ==
    IF a = <<>> THEN acc ELSE NatOfBE(Tail(a), acc * 256 + Head(a))

\* ------------------------------------------------------------ integer codec

\* Encode<Postgres> for i32: i32::to_be_bytes appended to the buffer.
I32ToBeBytes(n) == Reverse(ToLE(n, 4))

\* Decode<Postgres> for i32: i32::from_be_bytes.
I32FromBeBytes(b) ==
    (IF b[1] >= 128 THEN b[1] - 256 ELSE b[1]) * 16777216
        + b[2] * 65536 + b[3] * 256 + b[4]

\* Encode<Postgres> for i64: i64::to_be_bytes of the numeral m.
I64ToBeBytes(m) ==
    LET secs == AddLE(MulSmallLE(ToLE(m.d, 8), SecsPerDay, 0), ToLE(m.s, 8), 0)
    IN  Reverse(AddLE(MulSmallLE(secs, MicrosPerSec, 0), ToLE(m.u, 8), 0))

\* Decode<Postgres> for i64: the numeral of i64::from_be_bytes(b).
I64FromBeBytes(b) ==
    LET neg  == b[1] >= 128
        mag  == IF neg THEN Reverse(NegLE(Reverse(b))) ELSE b
        bySec == DivSmallBE(mag, MicrosPerSec, 0)
        byDay == DivSmallBE(bySec.q, SecsPerDay, 0)
        abs  == Num(NatOfBE(byDay.q, 0), byDay.r, bySec.r)
    IN  IF neg THEN NumNeg(abs, MicrosPerSec) ELSE abs

\* b + k modulo 2^64 for a small integer k, b in wire order.
BytesPlus(b, k) == Reverse(AddLE(Reverse(b), ToLE(k, Len(b)), 0))

\* ------------------------------------------------------------ chrono values

\* NaiveTime: secs seconds since midnight and frac nanoseconds; a frac of
\* NanosPerSec or more represents a leap second.
Time(secs, frac) == [secs |-> secs, frac |-> frac]

\* NaiveTime::from_hms(0, 0, 0)
Midnight == Time(0, 0)

\* NaiveDateTime
DateTime(date, time) == [date |-> date, time |-> time]

\* DateTime<Tz>: the UTC date and time, and the zone's offset in seconds.
Zoned(datetime, offset) == [datetime |-> datetime, offset |-> offset]

\* chrono::Duration, as a numeral whose sub-second unit is the nanosecond.
\* Duration::microseconds(m) for the i64 numeral m
DurationMicroseconds(m) == Num(m.d, m.s, m.u * NanosPerMicro)

\* Duration::days(n)
DurationDays(n) == Num(n, 0, 0)

\* Duration::num_days(): whole days, rounded towards zero.
NumDays(dur) == IF dur.d < 0 /\ (dur.s # 0 \/ dur.u # 0) THEN dur.d + 1 ELSE dur.d

\* Mutant of NumMicroseconds: num_seconds() scaled to microseconds.
NumMicroseconds_WholeSeconds(dur) == Some(Num(dur.d, dur.s, 0))

\* Duration::num_microseconds(): whole microseconds, rounded towards zero;
\* None when the count does not fit an i64.
NumMicroseconds(dur) ==
    LET floor == Num(dur.d, dur.s, dur.u \div NanosPerMicro)
        trunc == IF dur.d < 0 /\ dur.u % NanosPerMicro # 0
                 THEN NumSucc(floor, MicrosPerSec) ELSE floor
    IN  IF InI64(trunc) THEN Some(trunc) ELSE None

\* NaiveTime - NaiveTime::from_hms(0, 0, 0): a leap second counts as one
\* more second.
TimeSinceMidnight(t) ==
    LET secs == t.secs + t.frac \div NanosPerSec
    IN  Num(secs \div SecsPerDay, secs % SecsPerDay, t.frac % NanosPerSec)

\* Mutant of MidnightPlus: the sub-second part of the duration is dropped.
MidnightPlus_DropsFraction(dur) == Time(dur.s, 0)

\* NaiveTime::from_hms(0, 0, 0) + Duration: wraps around, the whole days of
\* the duration are ignored.
MidnightPlus(dur) == Time(dur.s, dur.u)

\* Mutant of EpochDatePlus: an addition that saturates at NaiveDate::MIN / MAX.
EpochDatePlus_Saturating(dur) ==
    IF NumDays(dur) < MinDateDays THEN Some(Date(MinYear, 1, 1))
    ELSE IF NumDays(dur) > MaxDateDays THEN Some(Date(MaxYear, 12, 31))
    ELSE EpochCheckedAddDays(NumDays(dur))

\* NaiveDate::from_ymd(2000, 1, 1) + Duration: panics (None here) on overflow.
EpochDatePlus(dur) == EpochCheckedAddDays(NumDays(dur))

\* Mutant of DateTimeSinceEpoch: the offset is taken from the Unix epoch.
DateTimeSinceEpoch_Unix(ts) ==
    LET t == TimeSinceMidnight(ts.time)
    IN  Num(DayNumber(ts.date.y, ts.date.m, ts.date.d) - DayNumber(1970, 1, 1) + t.d,
            t.s, t.u)

\* NaiveDateTime::signed_duration_since(postgres_epoch().naive_utc())
DateTimeSinceEpoch(ts) ==
    LET t == TimeSinceMidnight(ts.time)
    IN  Num(DateDaysSinceEpoch(ts.date) + t.d, t.s, t.u)

\* Mutant of EpochCheckedAddSigned: an addition that saturates at the first
\* and last representable dates.
EpochCheckedAddSigned_Saturating(dur) ==
    IF dur.d < MinDateDays THEN Some(DateTime(Date(MinYear, 1, 1), Time(dur.s, dur.u)))
    ELSE IF dur.d > MaxDateDays
    THEN Some(DateTime(Date(MaxYear, 12, 31), Time(dur.s, dur.u)))
    ELSE Some(DateTime(DateOfDayNumber(EpochDayNumber + dur.d), Time(dur.s, dur.u)))

\* postgres_epoch().naive_utc().checked_add_signed(dur)
EpochCheckedAddSigned(dur) ==
    LET date == EpochCheckedAddDays(dur.d)
    IN  IF date = None THEN None
        ELSE Some(DateTime(date.v, MidnightPlus(dur)))

\* The timestamp k seconds after ts.
DateTimePlusSecs(ts, k) ==
    LET secs == ts.time.secs + k
        day  == DayNumber(ts.date.y, ts.date.m, ts.date.d) + secs \div SecsPerDay
    IN  DateTime(DateOfDayNumber(day), Time(secs % SecsPerDay, ts.time.frac))

\* Mutant of NaiveUtc: DateTime::naive_local(), the zone's wall-clock time.
NaiveUtc_Local(z) == DateTimePlusSecs(z.datetime, z.offset)

\* DateTime::naive_utc()
NaiveUtc(z) == z.datetime

\* DateTime::from_utc(date_time, Utc)
FromUtc(datetime) == Zoned(datetime, 0)

\* Mutant of LocalFromUtcDatetime: Local.from_local_datetime(&date_time),
\* which reads the timestamp as the zone's wall-clock time.
LocalFromUtcDatetime_AsLocal(datetime, off) ==
    Zoned(DateTimePlusSecs(datetime, -off), off)

\* Local.from_utc_datetime(&date_time): the same instant, with the offset
\* off the system's zone has at that instant.
LocalFromUtcDatetime(datetime, off) == Zoned(datetime, off)

\* ---------------------------------------------------------------- the codec

Ok(x) == [ok |-> TRUE, v |-> x]
Panic(text, arg) == [ok |-> FALSE, msg |-> <<text, arg>>]

\* impl Decode<Postgres> for NaiveTime
NaiveTime_decode(raw) ==
    LET micros == I64FromBeBytes(raw)
    IN  Ok(MidnightPlus(DurationMicroseconds(micros)))

\* Mutant of NaiveTime_encode: num_nanoseconds() in place of
\* num_microseconds().
NaiveTime_encode_Nanos(self) ==
    LET t    == TimeSinceMidnight(self)
        secs == (t.d * SecsPerDay + t.s) * 1000 + t.u \div MicrosPerSec
    IN  Ok(I64ToBeBytes(Num(secs \div SecsPerDay, secs % SecsPerDay, t.u % MicrosPerSec)))

\* impl Encode<Postgres> for NaiveTime
NaiveTime_encode(self) ==
    LET micros == NumMicroseconds(TimeSinceMidnight(self))
    IN  IF micros = None THEN Panic("shouldn't overflow", self)
        ELSE Ok(I64ToBeBytes(micros.v))

\* impl Decode<Postgres> for NaiveDate
NaiveDate_decode(raw) ==
    LET days == I32FromBeBytes(raw)
        date == EpochDatePlus(DurationDays(days))
    IN  IF date = None THEN Panic("NaiveDate + Duration overflowed", days)
        ELSE Ok(date.v)

\* i32::MIN and i32::MAX
I32Min == -2147483647 - 1
I32Max == 2147483647

\* Mutant of TryIntoI32: a truncating cast that keeps the low 16 bits.
TryIntoI32_Truncating(n) == Some(((n + 32768) % 65536) - 32768)

\* i64 -> i32 try_into(): None when the value does not fit.
TryIntoI32(n) == IF n < I32Min \/ n > I32Max THEN None ELSE Some(n)

\* impl Encode<Postgres> for NaiveDate
NaiveDate_encode(self) ==
    LET days == TryIntoI32(DateDaysSinceEpoch(self))
    IN  IF days = None THEN Panic("NaiveDate out of range for Postgres", self)
        ELSE Ok(I32ToBeBytes(days.v))

\* impl Decode<Postgres> for NaiveDateTime
NaiveDateTime_decode(raw) ==
    LET micros == I64FromBeBytes(raw)
        ts     == EpochCheckedAddSigned(DurationMicroseconds(micros))
    IN  IF ts = None
        THEN Panic("Postgres timestamp out of range for NaiveDateTime", micros)
        ELSE Ok(ts.v)

\* impl Encode<Postgres> for NaiveDateTime
NaiveDateTime_encode(self) ==
    LET micros == NumMicroseconds(DateTimeSinceEpoch(self))
    IN  IF micros = None THEN Panic("NaiveDateTime out of range for Postgres", self)
        ELSE Ok(I64ToBeBytes(micros.v))

\* impl Decode<Postgres> for DateTime<Utc>
DateTimeUtc_decode(raw) ==
    LET date_time == NaiveDateTime_decode(raw)
    IN  IF date_time.ok THEN Ok(FromUtc(date_time.v)) ELSE date_time

\* impl Decode<Postgres> for DateTime<Local>
DateTimeLocal_decode(raw, off) ==
    LET date_time == NaiveDateTime_decode(raw)
    IN  IF date_time.ok THEN Ok(LocalFromUtcDatetime(date_time.v, off))
        ELSE date_time

\* impl<Tz: TimeZone> Encode<Postgres> for DateTime<Tz>
DateTimeTz_encode(self) == NaiveDateTime_encode(NaiveUtc(self))

\* ------------------------------------------------------------------- inputs

\* The zone offsets (seconds east of UTC) the system's local zone may have.
LocalOffsets == {-5 * 3600, 0, 5 * 3600 + 1800}

NextDay(date) ==
    IF date.d < DaysInMonth(date.y, date.m) THEN Date(date.y, date.m, date.d + 1)
    ELSE IF date.m < 12 THEN Date(date.y, date.m + 1, 1)
    ELSE Date(date.y + 1, 1, 1)

PrevDay(date) ==
    IF date.d > 1 THEN Date(date.y, date.m, date.d - 1)
    ELSE IF date.m > 1 THEN Date(date.y, date.m - 1, DaysInMonth(date.y, date.m - 1))
    ELSE Date(date.y - 1, 12, 31)

\* The date k days after date (before it, for a negative k).
RECURSIVE ShiftDate(_, _)
ShiftDate(date, k) ==
    IF k = 0 THEN date
    ELSE IF k > 0 THEN ShiftDate(NextDay(date), k - 1)
    ELSE ShiftDate(PrevDay(date), k + 1)

NearZero == -Spread .. Spread

BaseDates ==
    { Date(EpochYear, EpochMonth, EpochDay), Date(2001, 1, 1), Date(2019, 12, 11),
      Date(2000, 2, 29), Date(1900, 3, 1),
      Date(MinYear, 1, 1), Date(MaxYear, 12, 31) }

\* Every NaiveDate value lies within MIN_YEAR ..= MAX_YEAR.
Dates ==
    { date \in { ShiftDate(b, k) : b \in BaseDates, k \in NearZero } :
        date.y >= MinYear /\ date.y <= MaxYear }

BaseSecs == {0, 3600, 11 * 3600 + 65, SecsPerDay - 1}

\* Times of day at microsecond resolution, times that carry nanoseconds,
\* and leap-second representations (frac >= NanosPerSec).
Times ==
    { Time(s, u * NanosPerMicro) :
        s \in BaseSecs, u \in (0 .. Spread) \cup ((MicrosPerSec - 1 - Spread) .. (MicrosPerSec - 1)) }
    \cup { Time(s, 500 + k) : s \in {0, SecsPerDay - 1}, k \in 0 .. Spread }
    \cup { Time(s, NanosPerSec + k * NanosPerMicro) : s \in {59, SecsPerDay - 1}, k \in 0 .. Spread }

DateTimes == { DateTime(date, time) : date \in Dates, time \in Times }

Zoneds == { Zoned(ts, off) : ts \in DateTimes, off \in LocalOffsets }

NoVal == [kind |-> "none"]

Values ==
    { [kind |-> "NaiveTime", v |-> t] : t \in Times }
    \cup { [kind |-> "NaiveDate", v |-> d] : d \in Dates }
    \cup { [kind |-> "NaiveDateTime", v |-> ts] : ts \in DateTimes }
    \cup { [kind |-> "DateTime", v |-> z] : z \in Zoneds }

\* 4-byte wire values: 0, 366, 7284, i32::MAX, i32::MIN, -1 and the offsets
\* of NaiveDate::MAX (95_015_644) and NaiveDate::MIN (-96_476_615).
BaseRaw4 ==
    { <<0, 0, 0, 0>>, <<0, 0, 1, 110>>, <<0, 0, 28, 116>>,
      <<127, 255, 255, 255>>, <<128, 0, 0, 0>>, <<255, 255, 255, 255>>,
      <<5, 169, 210, 220>>, <<250, 63, 226, 57>> }

\* 8-byte wire values: 0, 3_600_000_000, 629_377_265_000_000, 86_400_000_000,
\* i64::MAX, i64::MIN, and the offsets of the last microsecond of
\* NaiveDate::MAX and of the first of NaiveDate::MIN.
BaseRaw8 ==
    { <<0, 0, 0, 0, 0, 0, 0, 0>>, <<0, 0, 0, 0, 214, 147, 164, 0>>,
      <<0, 2, 60, 106, 80, 79, 94, 64>>, <<0, 0, 0, 20, 29, 215, 96, 0>>,
      <<127, 255, 255, 255, 255, 255, 255, 255>>, <<128, 0, 0, 0, 0, 0, 0, 0>>,
      <<113, 237, 121, 230, 207, 173, 223, 255>>,
      <<140, 82, 18, 147, 103, 180, 96, 0>> }

Raw4 == { BytesPlus(b, k) : b \in BaseRaw4, k \in NearZero }
Raw8 == { BytesPlus(b, k) : b \in BaseRaw8, k \in NearZero }

\* ------------------------------------------------------------ state machine

VARIABLES
    val,    \* the value handed to encode, NoVal when the caller only decodes
    raw,    \* the bytes handed to decode
    buf,    \* the caller's buffer
    out,    \* the decoded value
    pc,     \* "start", "encoded", "decoded" or "panicked"
    op,     \* the operations called so far
    msg     \* the panic message

vars == <<val, raw, buf, out, pc, op, msg>>

Init ==
    /\ val \in Values \cup {NoVal}
    /\ raw = <<>>
    /\ buf = <<>>
    /\ out = None
    /\ pc = "start"
    /\ op = <<>>
    /\ msg = <<>>

\* A call of encode(&self, buf) with the result r of the implementation.
Encoded(name, r) ==
    /\ op' = Append(op, name)
    /\ IF r.ok
       THEN buf' = buf \o r.v /\ pc' = "encoded" /\ msg' = msg
       ELSE buf' = buf /\ pc' = "panicked" /\ msg' = r.msg
    /\ UNCHANGED <<val, raw, out>>

\* A call of decode(Some(bytes)) with the result r of the implementation.
Decoded(name, bytes, r) ==
    /\ op' = Append(op, name)
    /\ raw' = bytes
    /\ IF r.ok
       THEN out' = Some(r.v) /\ pc' = "decoded" /\ msg' = msg
       ELSE out' = out /\ pc' = "panicked" /\ msg' = r.msg
    /\ UNCHANGED <<val, buf>>

\* The bytes a decoder may be handed: bytes off the wire, or the bytes the
\* encoder enc has just written.
DecodeInputs(enc, wire) ==
    IF pc = "start" /\ val = NoVal THEN wire
    ELSE IF pc = "encoded" /\ op = <<enc>> THEN {buf}
    ELSE {}

EncodeNaiveTime ==
    /\ pc = "start" /\ val.kind = "NaiveTime"
    /\ Encoded("NaiveTime::encode", NaiveTime_encode(val.v))

DecodeNaiveTime ==
    \E bytes \in DecodeInputs("NaiveTime::encode", Raw8) :
        Decoded("NaiveTime::decode", bytes, NaiveTime_decode(bytes))

EncodeNaiveDate ==
    /\ pc = "start" /\ val.kind = "NaiveDate"
    /\ Encoded("NaiveDate::encode", NaiveDate_encode(val.v))

DecodeNaiveDate ==
    \E bytes \in DecodeInputs("NaiveDate::encode", Raw4) :
        Decoded("NaiveDate::decode", bytes, NaiveDate_decode(bytes))

EncodeNaiveDateTime ==
    /\ pc = "start" /\ val.kind = "NaiveDateTime"
    /\ Encoded("NaiveDateTime::encode", NaiveDateTime_encode(val.v))

DecodeNaiveDateTime ==
    \E bytes \in DecodeInputs("NaiveDateTime::encode", Raw8) :
        Decoded("NaiveDateTime::decode", bytes, NaiveDateTime_decode(bytes))

EncodeDateTimeTz ==
    /\ pc = "start" /\ val.kind = "DateTime"
    /\ Encoded("DateTime<Tz>::encode", DateTimeTz_encode(val.v))

DecodeDateTimeUtc ==
    \E bytes \in DecodeInputs("DateTime<Tz>::encode", Raw8) :
        Decoded("DateTime<Utc>::decode", bytes, DateTimeUtc_decode(bytes))

DecodeDateTimeLocal ==
    \E bytes \in DecodeInputs("DateTime<Tz>::encode", Raw8), off \in LocalOffsets :
        Decoded("DateTime<Local>::decode", bytes, DateTimeLocal_decode(bytes, off))

Next ==
    \/ EncodeNaiveTime
    \/ DecodeNaiveTime
    \/ EncodeNaiveDate
    \/ DecodeNaiveDate
    \/ EncodeNaiveDateTime
    \/ DecodeNaiveDateTime
    \/ EncodeDateTimeTz
    \/ DecodeDateTimeUtc
    \/ DecodeDateTimeLocal

Spec == Init /\ [][Next]_vars

TypeOK ==
    /\ pc \in {"start", "encoded", "decoded", "panicked"}
    /\ Len(op) <= 2
    /\ Len(buf) \in {0, 4, 8}

\* ------------------------------------------------------------------ claims

LastOp == IF op = <<>> THEN "none" ELSE op[Len(op)]

\* A time of day of the data model: within one calendar day (no leap-second
\* representation) and at microsecond resolution.
MicroTime(t) == t.frac < NanosPerSec /\ t.frac % NanosPerMicro = 0

\* The values of the data model ("in-range" values).
InDataModel(v) ==
    CASE v.kind = "NaiveTime" -> MicroTime(v.v)
      [] v.kind = "NaiveDate" -> TRUE
      [] v.kind = "NaiveDateTime" -> MicroTime(v.v.time)
      [] v.kind = "DateTime" -> MicroTime(v.v.datetime.time)
      [] OTHER -> FALSE

ValidDate(date) ==
    /\ date.y >= MinYear /\ date.y <= MaxYear
    /\ date.m \in 1 .. 12
    /\ date.d \in 1 .. DaysInMonth(date.y, date.m)

\* Days from 2000-01-01 to date, by the calendar.
CalendarDays(date) == DayNumber(date.y, date.m, date.d) - DayNumber(2000, 1, 1)

\* C1: round trip.  For every value of the data model, of each of the four
\* kinds, encode succeeds, decoding the bytes it wrote succeeds, and the
\* decoded value equals the encoded one; a zoned timestamp comes back as the
\* same instant, expressed in UTC by the UTC decoder.
C1_RoundTrip ==
    (val # NoVal /\ InDataModel(val)) =>
        /\ pc # "panicked"
        /\ Len(op) = 2 =>
            /\ pc = "decoded"
            /\ raw = buf
            /\ IF val.kind = "DateTime"
               THEN /\ out.v.datetime = val.v.datetime
                    /\ op[2] = "DateTime<Utc>::decode" => out.v.offset = 0
               ELSE out = Some(val.v)

\* C1 witness: a zoned timestamp in a non-UTC zone, not at the epoch, has
\* been encoded and decoded back in UTC.
C1_Witness ==
    /\ op = <<"DateTime<Tz>::encode", "DateTime<Utc>::decode">>
    /\ pc = "decoded"
    /\ InDataModel(val)
    /\ val.v.offset # 0
    /\ val.v.datetime = DateTime(Date(2019, 12, 11), Time(11 * 3600 + 65, 1000))

\* C2: zone erasure.  Encoding a zoned timestamp writes the same 8 bytes
\* whatever zone the instant is expressed in, and they are the bytes the
\* naive-timestamp encoder writes for the instant's UTC wall-clock time.
C2_ZoneErasure ==
    LastOp = "DateTime<Tz>::encode" =>
        /\ pc = "encoded"
        /\ Len(buf) = 8
        /\ buf = NaiveDateTime_encode(val.v.datetime).v
        /\ \A off \in LocalOffsets :
               DateTimeTz_encode(Zoned(val.v.datetime, off)) = Ok(buf)

\* C2 witness: an instant expressed in a zone east of UTC has been encoded.
C2_Witness ==
    /\ LastOp = "DateTime<Tz>::encode"
    /\ pc = "encoded"
    /\ val.v.offset > 0
    /\ val.v.datetime.date = Date(2019, 12, 11)

\* C3 as stated: decoding a date never fails; every 32-bit value days is
\* accepted and yields the valid calendar date 2000-01-01 + days.
C3_DateDecodeNeverFails ==
    LastOp = "NaiveDate::decode" =>
        /\ pc = "decoded"
        /\ ValidDate(out.v)
        /\ CalendarDays(out.v) = I32FromBeBytes(raw)

\* C3 amended: decoding a date accepts days exactly when 2000-01-01 + days
\* lies within the dates NaiveDate can represent (-262144-01-01 ..
\* 262143-12-31), and then returns that valid calendar date, unclamped;
\* for every other 32-bit value it aborts and returns nothing.
C3_DateDecodeInRange ==
    LastOp = "NaiveDate::decode" =>
        LET days == I32FromBeBytes(raw)
        IN  IF CalendarDays(Date(MinYear, 1, 1)) <= days
                /\ days <= CalendarDays(Date(MaxYear, 12, 31))
            THEN /\ pc = "decoded"
                 /\ ValidDate(out.v)
                 /\ CalendarDays(out.v) = days
            ELSE /\ pc = "panicked"
                 /\ out = None

\* C3 witness: the last representable date has been decoded.
C3_Witness ==
    /\ LastOp = "NaiveDate::decode"
    /\ pc = "decoded"
    /\ out.v = Date(MaxYear, 12, 31)
    /\ raw = <<5, 169, 210, 220>>

\* C4: date encode overflow detection.  Encoding a date either writes the
\* exact day offset from 2000-01-01 as a signed 32-bit integer, or, when the
\* offset is outside the signed 32-bit range, aborts naming the date and
\* writes nothing; it never writes a wrapped or truncated offset.
C4_DateEncodeExactOrAbort ==
    LastOp = "NaiveDate::encode" =>
        LET days == CalendarDays(val.v)
        IN  IF I32Min <= days /\ days <= I32Max
            THEN /\ pc = "encoded"
                 /\ Len(buf) = 4
                 /\ I32FromBeBytes(buf) = days
            ELSE /\ pc = "panicked"
                 /\ buf = <<>>
                 /\ msg = <<"NaiveDate out of range for Postgres", val.v>>

\* C4 witness: a date whose offset needs more than 16 bits was encoded.
C4_Witness ==
    /\ LastOp = "NaiveDate::encode"
    /\ pc = "encoded"
    /\ val.v = Date(MaxYear, 12, 31)
    /\ buf = <<5, 169, 210, 220>>

ValidTime(t) == t.secs \in 0 .. (SecsPerDay - 1) /\ t.frac \in 0 .. (NanosPerSec - 1)

\* The count of microseconds from 2000-01-01T00:00:00 to a timestamp of the
\* data model, by the calendar: days * 86_400_000_000 + microseconds since
\* midnight.
CalendarMicros(ts) ==
    Num(CalendarDays(ts.date), ts.time.secs, ts.time.frac \div NanosPerMicro)

\* The timestamps NaiveDateTime can represent, as counts of microseconds.
Representable(micros) ==
    /\ CalendarDays(Date(MinYear, 1, 1)) <= micros.d
    /\ micros.d <= CalendarDays(Date(MaxYear, 12, 31))

\* C5: naive timestamp decode guards overflow.  For every signed 64-bit
\* value micros, decode returns exactly 2000-01-01T00:00:00 + micros when
\* that is a representable timestamp, and otherwise aborts with a message
\* that carries the raw micros value; nothing wrapped or clamped is returned.
C5_TimestampDecodeGuarded ==
    LastOp = "NaiveDateTime::decode" =>
        LET micros == I64FromBeBytes(raw)
        IN  IF Representable(micros)
            THEN /\ pc = "decoded"
                 /\ ValidDate(out.v.date) /\ ValidTime(out.v.time)
                 /\ MicroTime(out.v.time)
                 /\ CalendarMicros(out.v) = micros
            ELSE /\ pc = "panicked"
                 /\ out = None
                 /\ msg = <<"Postgres timestamp out of range for NaiveDateTime", micros>>

\* C5 witness: the microsecond after the last representable timestamp was
\* handed to decode, which aborted.
C5_Witness ==
    /\ op = <<"NaiveDateTime::decode">>
    /\ raw = <<113, 237, 121, 230, 207, 173, 224, 0>>
    /\ pc = "panicked"

\* C6: naive timestamp encode overflow.  For every naive timestamp ts, encode
\* either writes the microsecond offset ts - 2000-01-01T00:00:00 as a signed
\* 64-bit integer (exactly, for a timestamp of the data model; less the
\* nanoseconds below one microsecond otherwise), or, when the offset does not
\* fit, aborts naming ts and writes nothing; no wrapped offset is written.
C6_TimestampEncodeExactOrAbort ==
    LastOp = "NaiveDateTime::encode" =>
        LET ts    == val.v
            leap  == ts.time.frac \div NanosPerSec
            floor == Num(CalendarDays(ts.date), ts.time.secs,
                         (ts.time.frac % NanosPerSec) \div NanosPerMicro)
            sub   == ts.time.frac % NanosPerMicro
            exact == IF floor.d < 0 /\ sub # 0 THEN NumSucc(floor, MicrosPerSec)
                     ELSE floor
        IN  IF leap = 1 THEN pc = "encoded" /\ Len(buf) = 8
            ELSE IF InI64(exact)
            THEN /\ pc = "encoded"
                 /\ Len(buf) = 8
                 /\ I64FromBeBytes(buf) = exact
                 /\ MicroTime(ts.time) => I64FromBeBytes(buf) = CalendarMicros(ts)
            ELSE /\ pc = "panicked"
                 /\ buf = <<>>
                 /\ msg = <<"NaiveDateTime out of range for Postgres", ts>>

\* C6 witness: the first representable timestamp, the one furthest from the
\* epoch, was encoded.
C6_Witness ==
    /\ LastOp = "NaiveDateTime::encode"
    /\ pc = "encoded"
    /\ val.v = DateTime(Date(MinYear, 1, 1), Midnight)
    /\ buf = <<140, 82, 18, 147, 103, 180, 96, 0>>

\* C7: date offset mapping.  Encoding a date writes exactly 4 bytes, the
\* big-endian signed 32-bit count of proleptic-Gregorian days from 2000-01-01
\* (0 for 2000-01-01, one more for each following day, leap days included);
\* decoding the count gives the date back; 2000-01-01 <-> 0,
\* 2001-01-01 <-> 366 and 2019-12-11 <-> 7284.
C7_DateOffsetMapping ==
    /\ LastOp = "NaiveDate::encode" =>
        /\ pc = "encoded"
        /\ Len(buf) = 4
        /\ val.v = Date(2000, 1, 1) <=> buf = <<0, 0, 0, 0>>
        /\ val.v = Date(2001, 1, 1) <=> buf = <<0, 0, 1, 110>>
        /\ val.v = Date(2019, 12, 11) <=> buf = <<0, 0, 28, 116>>
        /\ NextDay(val.v).y <= MaxYear =>
               NaiveDate_encode(NextDay(val.v)) = Ok(BytesPlus(buf, 1))
        /\ NaiveDate_decode(buf) = Ok(val.v)
    /\ (LastOp = "NaiveDate::decode" /\ pc = "decoded") =>
        /\ raw = <<0, 0, 0, 0>> <=> out.v = Date(2000, 1, 1)
        /\ raw = <<0, 0, 1, 110>> <=> out.v = Date(2001, 1, 1)
        /\ raw = <<0, 0, 28, 116>> <=> out.v = Date(2019, 12, 11)
        /\ NaiveDate_encode(out.v) = Ok(raw)

\* C7 witness: 2019-12-11 was encoded as 7284.
C7_Witness ==
    /\ op = <<"NaiveDate::encode">>
    /\ val.v = Date(2019, 12, 11)
    /\ buf = <<0, 0, 28, 116>>

\* C8: timestamp offset mapping.  Encoding a naive timestamp of the data
\* model writes exactly 8 bytes, the big-endian signed 64-bit count of
\* microseconds from 2000-01-01T00:00:00 (days since the epoch *
\* 86_400_000_000 + microseconds since midnight); decoding the count gives
\* the timestamp back; the epoch <-> 0, the epoch + 1 hour <-> 3_600_000_000
\* and 2019-12-11 11:01:05 <-> 629_377_265_000_000.
C8_TimestampOffsetMapping ==
    /\ (LastOp = "NaiveDateTime::encode" /\ MicroTime(val.v.time)) =>
        /\ pc = "encoded"
        /\ Len(buf) = 8
        /\ I64FromBeBytes(buf) = CalendarMicros(val.v)
        /\ val.v = DateTime(Date(2000, 1, 1), Midnight)
               <=> buf = <<0, 0, 0, 0, 0, 0, 0, 0>>
        /\ val.v = DateTime(Date(2000, 1, 1), Time(3600, 0))
               <=> buf = <<0, 0, 0, 0, 214, 147, 164, 0>>
        /\ val.v = DateTime(Date(2019, 12, 11), Time(11 * 3600 + 65, 0))
               <=> buf = <<0, 2, 60, 106, 80, 79, 94, 64>>
        /\ NaiveDateTime_decode(buf) = Ok(val.v)
    /\ (LastOp = "NaiveDateTime::decode" /\ pc = "decoded") =>
        /\ raw = <<0, 0, 0, 0, 0, 0, 0, 0>>
               <=> out.v = DateTime(Date(2000, 1, 1), Midnight)
        /\ raw = <<0, 0, 0, 0, 214, 147, 164, 0>>
               <=> out.v = DateTime(Date(2000, 1, 1), Time(3600, 0))
        /\ raw = <<0, 2, 60, 106, 80, 79, 94, 64>>
               <=> out.v = DateTime(Date(2019, 12, 11), Time(11 * 3600 + 65, 0))
        /\ NaiveDateTime_encode(out.v) = Ok(raw)

\* C8 witness: 629_377_265_000_000 was decoded as 2019-12-11 11:01:05.
C8_Witness ==
    /\ op = <<"NaiveDateTime::decode">>
    /\ raw = <<0, 2, 60, 106, 80, 79, 94, 64>>
    /\ out = Some(DateTime(Date(2019, 12, 11), Time(11 * 3600 + 65, 0)))

\* C9: time-of-day encode never fails.  For every time of day within one
\* calendar day, encode computes the microseconds since midnight, which lie
\* in [0, 86_400_000_000), and writes them as 8 big-endian bytes; the
\* "shouldn't overflow" abort is not reached for any time of day.
C9_TimeEncodeNeverFails ==
    LastOp = "NaiveTime::encode" =>
        /\ pc = "encoded"
        /\ Len(buf) = 8
        /\ val.v.frac < NanosPerSec =>
               I64FromBeBytes(buf)
                   = Num(0, val.v.secs, val.v.frac \div NanosPerMicro)

\* C9 witness: the last microsecond of the day was encoded.
C9_Witness ==
    /\ LastOp = "NaiveTime::encode"
    /\ pc = "encoded"
    /\ val.v = Time(SecsPerDay - 1, (MicrosPerSec - 1) * NanosPerMicro)
    /\ buf = <<0, 0, 0, 20, 29, 215, 95, 255>>

\* C10: zoned decode preserves the instant.  For every 8-byte input, the UTC
\* and the local-zone decoders abort exactly when the naive timestamp decoder
\* aborts (with its message), and otherwise both return the instant that is
\* the naive-decoded timestamp read as UTC: the UTC decoder with offset 0,
\* the local decoder with the local zone's offset.
C10_ZonedDecodeSameInstant ==
    LastOp \in {"DateTime<Utc>::decode", "DateTime<Local>::decode"} =>
        LET naive == NaiveDateTime_decode(raw)
        IN  IF naive.ok
            THEN /\ pc = "decoded"
                 /\ out.v.datetime = naive.v
                 /\ LastOp = "DateTime<Utc>::decode" => out.v.offset = 0
                 /\ out.v.offset \in LocalOffsets
                 /\ DateTimeUtc_decode(raw).v.datetime = out.v.datetime
                 /\ \A off \in LocalOffsets :
                        DateTimeLocal_decode(raw, off).v.datetime = out.v.datetime
            ELSE /\ pc = "panicked"
                 /\ msg = naive.msg
                 /\ ~DateTimeUtc_decode(raw).ok
                 /\ \A off \in LocalOffsets : ~DateTimeLocal_decode(raw, off).ok

\* C10 witness: the local-zone decoder returned 2019-12-11 11:01:05 UTC in a
\* zone west of UTC.
C10_Witness ==
    /\ op = <<"DateTime<Local>::decode">>
    /\ pc = "decoded"
    /\ raw = <<0, 2, 60, 106, 80, 79, 94, 64>>
    /\ out.v.offset < 0
    /\ out.v.datetime = DateTime(Date(2019, 12, 11), Time(11 * 3600 + 65, 0))

====
